---- MODULE Spec2Model ----
(***************************************************************************)
(* A model of packages/astro/src/content/utils.ts:                         *)
(*   - contentObservable (get / set / subscribe / unsubscribe), with the   *)
(*     call stack of synchronous, possibly re-entrant notifications;       *)
(*   - loadContentConfig, step by step, with the outcomes of its awaited   *)
(*     calls (createServer, ssrLoadModule, close) chosen by the            *)
(*     environment;                                                        *)
(*   - getFrontmatterErrorLine and getEntryData as operators over small    *)
(*     strings and records.                                                *)
(* Four specifications share the module: SpecObs, SpecLoad, SpecLine and   *)
(* SpecEntry. Each one moves its own variables and leaves the others at    *)
(* their initial values.                                                   *)
(***************************************************************************)
EXTENDS Integers, Sequences, FiniteSets, TLC

VARIABLES
    \* ---- contentObservable ----
    ctx,        \* `let ctx` of the closure: the current ContentCtx (its status)
    ver,        \* how many times set() has assigned ctx
    setData,    \* the Set<Subscriber>: its entries in insertion order
    stack,      \* the set() calls in progress, innermost last
    handles,    \* handles[f]: subscribe(f) has returned an unsubscribe callback
    unsubbed,   \* unsubbed[f]: f's unsubscribe callback ran, no subscribe(f) since
    subCalls,   \* subscribe(f) calls since f was last removed (capped at 2)
    newest,     \* the number of the newest context any subscriber has been given
    done,       \* the set() call that has just returned, or NoDone
    lastArg,    \* the argument of the most recent set() (initialCtx before any)
    ops,        \* calls made to the observable so far
    \* ---- loadContentConfig ----
    lpc,        \* position inside loadContentConfig
    servers,    \* every server createServer returned so far, oldest first
    created,    \* createServer returned a server in the current call
    found,      \* contentPaths.config is defined (current call)
    module,     \* what ssrLoadModule returned (current call), or NoModule
    result,     \* what the call returned, or NoResult
    nCalls,     \* loadContentConfig calls started
    \* ---- getFrontmatterErrorLine ----
    raw,        \* rawFrontmatter
    key,        \* frontmatterKey
    line,       \* the value returned
    lineDone,   \* getFrontmatterErrorLine has returned
    \* ---- getEntryData ----
    entry,      \* the Entry passed in: its data and _internal.rawData
    schema,     \* collectionConfig.schema
    entryOut,   \* the Entry as the call leaves it, or NoEntry before the call
    ret         \* what getEntryData returned or threw, or NoRet

obsVars   == <<ctx, ver, setData, stack, handles, unsubbed, subCalls, newest, done,
               lastArg, ops>>
loadVars  == <<lpc, servers, created, found, module, result, nCalls>>
lineVars  == <<raw, key, line, lineDone>>
entryVars == <<entry, schema, entryOut, ret>>
vars      == <<obsVars, loadVars, lineVars, entryVars>>

(***************************************************************************)
(* Bounds of the model.                                                    *)
(***************************************************************************)
MaxOps     == 5   \* calls of set, subscribe and unsubscribe in one behaviour
MaxCalls   == 2   \* loadContentConfig calls in one behaviour
MaxLen     == 4   \* characters of raw frontmatter after the opening delimiter line

(***************************************************************************)
(* contentObservable                                                       *)
(***************************************************************************)
Statuses == {"loading", "loaded", "error"}
Subs     == {"f1", "f2"}
Empty    == "empty"
None     == "none"
NoGiven  == [val |-> None, ver |-> 0]
NoDone   == [arg |-> None]

\* The live entries of the Set, in insertion order.
RECURSIVE Live(_)
Live(data) ==
    IF data = <<>> THEN <<>>
    ELSE IF Head(data) = Empty THEN Live(Tail(data))
         ELSE <<Head(data)>> \o Live(Tail(data))

Has(data, f) == \E i \in 1..Len(data) : data[i] = f

\* A faulty variant of SetAdd: an array push, which keeps duplicates.
SetAddPush(data, f) == Append(data, f)

\* Set.prototype.add: append unless the value is already an entry.
SetAdd(data, f) == IF Has(data, f) THEN data ELSE Append(data, f)

\* A faulty variant of SetDelete: the unsubscribe callback removes nothing.
SetDeleteNoop(data, f) == data

\* Set.prototype.delete: the matching entry is emptied in place, so that a
\* forEach in progress keeps its position.
SetDelete(data, f) ==
    IF Has(data, f)
    THEN LET i == CHOOSE j \in 1..Len(data) :
                      data[j] = f /\ \A k \in 1..(j - 1) : data[k] # f
         IN  [data EXCEPT ![i] = Empty]
    ELSE data

\* A faulty variant of NextEntry: the pass starts one entry too late.
NextEntrySkip(data, idx) ==
    LET from == IF idx = 1 THEN 2 ELSE idx
        C == {j \in from..Len(data) : data[j] # Empty}
    IN  IF C = {} THEN 0 ELSE CHOOSE j \in C : \A k \in C : j <= k

\* Set.prototype.forEach: the next entry at or after position idx that is
\* not emptied (entries appended during the pass are reached too); 0 if none.
NextEntry(data, idx) ==
    LET C == {j \in idx..Len(data) : data[j] # Empty}
    IN  IF C = {} THEN 0 ELSE CHOOSE j \in C : \A k \in C : j <= k

\* A faulty variant of NotifyArg: fn(_ctx), the parameter of this set() call.
NotifyArgParam(frame, cur) == frame.arg

\* `fn(ctx)`: the callback receives the closure variable as it is when the
\* callback is invoked, not the parameter of the set() call.
NotifyArg(frame, cur) == cur

\* A faulty variant of SetCtx: the assignment is lost.
SetCtxKeep(old, c) == old

\* `ctx = _ctx`
SetCtx(old, c) == c

\* get()
Get == ctx

Top == stack[Len(stack)]

\* Who can call the observable: outside code when no set() is in progress,
\* or the subscriber that is running.
CanCall == IF stack = <<>> THEN TRUE ELSE Top.running # None

\* Emptied entries are unobservable once no forEach is in progress.
Settle(data, stk) == IF stk = <<>> THEN Live(data) ELSE data

\* Every pass in progress has seen a call made from inside a callback.
Disturb(stk) ==
    IF stk = <<>> THEN <<>>
    ELSE [i \in 1..Len(stk) |-> [stk[i] EXCEPT !.quiet = FALSE]]

InitObsAt(c) ==
    /\ ctx = c
    /\ ver = 0
    /\ setData = <<>>
    /\ stack = <<>>
    /\ handles = [f \in Subs |-> FALSE]
    /\ unsubbed = [f \in Subs |-> FALSE]
    /\ subCalls = [f \in Subs |-> 0]
    /\ newest = 0
    /\ ops = 0
    /\ done = NoDone
    /\ lastArg = c

\* contentObservable(initialCtx)
InitObs == \E c \in Statuses : InitObsAt(c)

\* set(_ctx): the assignment and the start of subscribers.forEach
Set(c) ==
    /\ CanCall
    /\ ops < MaxOps
    /\ ops' = ops + 1
    /\ ctx' = SetCtx(ctx, c)
    /\ ver' = ver + 1
    /\ lastArg' = c
    /\ stack' = Append(Disturb(stack),
                       [arg |-> [val |-> c, ver |-> ver + 1], before |-> ctx,
                        idx |-> 1, running |-> None, given |-> NoGiven,
                        atCall |-> NoGiven, stale |-> FALSE, prev |-> 0,
                        snapshot |-> Live(setData), notified |-> <<>>,
                        allArg |-> TRUE, quiet |-> TRUE])
    /\ done' = NoDone
    /\ UNCHANGED <<setData, handles, unsubbed, subCalls, newest>>

\* One iteration of subscribers.forEach: invoke the next subscriber.
ForEachStep ==
    /\ stack # <<>>
    /\ Top.running = None
    /\ NextEntry(setData, Top.idx) # 0
    /\ LET j == NextEntry(setData, Top.idx)
           f == setData[j]
           a == NotifyArg(Top, [val |-> Get, ver |-> ver])
       IN  /\ stack' = [stack EXCEPT ![Len(stack)] =
                           [@ EXCEPT !.idx = j + 1, !.running = f, !.given = a,
                                     !.atCall = [val |-> Get, ver |-> ver],
                                     !.stale = unsubbed[f], !.prev = newest,
                                     !.notified = Append(@, f),
                                     !.allArg = @ /\ a.val = Top.arg.val]]
           /\ newest' = IF a.ver > newest THEN a.ver ELSE newest
    /\ done' = NoDone
    /\ UNCHANGED <<ctx, ver, setData, handles, unsubbed, subCalls, lastArg, ops>>

\* The running subscriber returns to forEach.
CallbackReturn ==
    /\ stack # <<>>
    /\ Top.running # None
    /\ stack' = [stack EXCEPT ![Len(stack)] =
                    [@ EXCEPT !.running = None, !.given = NoGiven,
                              !.atCall = NoGiven, !.stale = FALSE, !.prev = 0]]
    /\ done' = NoDone
    /\ UNCHANGED <<ctx, ver, setData, handles, unsubbed, subCalls, newest, lastArg,
                   ops>>

\* forEach has no entry left: set() returns.
ForEachDone ==
    /\ stack # <<>>
    /\ Top.running = None
    /\ NextEntry(setData, Top.idx) = 0
    /\ done' = [arg |-> Top.arg.val, snapshot |-> Top.snapshot,
                notified |-> Top.notified, allArg |-> Top.allArg,
                quiet |-> Top.quiet, get |-> Get]
    /\ stack' = SubSeq(stack, 1, Len(stack) - 1)
    /\ setData' = Settle(setData, stack')
    /\ UNCHANGED <<ctx, ver, handles, unsubbed, subCalls, newest, lastArg, ops>>

\* subscribe(fn)
Subscribe(f) ==
    /\ CanCall
    /\ ops < MaxOps
    /\ ops' = ops + 1
    /\ setData' = SetAdd(setData, f)
    /\ handles' = [handles EXCEPT ![f] = TRUE]
    /\ unsubbed' = [unsubbed EXCEPT ![f] = FALSE]
    /\ subCalls' = [subCalls EXCEPT ![f] = IF @ < 2 THEN @ + 1 ELSE @]
    /\ stack' = Disturb(stack)
    /\ done' = NoDone
    /\ UNCHANGED <<ctx, ver, newest, lastArg>>

\* The callback subscribe(fn) returned: () => subscribers.delete(fn)
Unsubscribe(f) ==
    /\ CanCall
    /\ handles[f]
    /\ ops < MaxOps
    /\ ops' = ops + 1
    /\ setData' = Settle(SetDelete(setData, f), stack)
    /\ unsubbed' = [unsubbed EXCEPT ![f] = TRUE]
    /\ subCalls' = [subCalls EXCEPT ![f] = 0]
    /\ stack' = Disturb(stack)
    /\ done' = NoDone
    /\ UNCHANGED <<ctx, ver, handles, newest, lastArg>>

(***************************************************************************)
(* loadContentConfig                                                       *)
(***************************************************************************)
NoModule == [shape |-> None]
NoResult == [kind |-> None]

\* What the config module may export: `collections` is a record of
\* collection configs ("c1", "c2"), something else, or missing; the module
\* may export other names besides.
Modules == [shape : {"c1", "c2", "notRecord", "missing"}, extra : BOOLEAN]

\* How an awaited call of the module-execution collaborator can end.
CloseOutcomes == {"ok", "rejectsOpen", "rejectsClosed"}

\* contentConfigParser.safeParse: succeeds when `collections` is a record of
\* collection configs, and keeps only `collections`.
SafeParseConfig(m) ==
    IF m.shape \in {"c1", "c2"}
    THEN [success |-> TRUE, data |-> [collections |-> m.shape]]
    ELSE [success |-> FALSE,
          message |-> IF m.shape = "missing" THEN "collections: Required"
                      ELSE "collections: Expected object"]

\* tempConfigServer.close(): it resolves with the server closed, or rejects,
\* having closed the server or not.
Close(srv, o) ==
    [state |-> IF o = "rejectsOpen" THEN srv.state ELSE "closed",
     closes |-> srv.closes + 1]

\* `await tempConfigServer.close()` inside the try block
TryTeardown(srv, o) == Close(srv, o)

\* A faulty variant of CatchTeardown: the catch block returns without closing.
CatchTeardownMissing(srv, o) == srv

\* `await tempConfigServer.close()` inside the catch block
CatchTeardown(srv, o) == Close(srv, o)

\* The server of the current call is the newest one.
Cur == servers[Len(servers)]

InitLoad ==
    /\ lpc = "idle"
    /\ servers = <<>>
    /\ created = FALSE
    /\ found = FALSE
    /\ module = NoModule
    /\ result = NoResult
    /\ nCalls = 0

\* loadContentConfig is called: getContentPaths, and the early return when
\* no config file is found.
Call ==
    /\ lpc \in {"idle", "returned", "threw"}
    /\ nCalls < MaxCalls
    /\ nCalls' = nCalls + 1
    /\ created' = FALSE
    /\ module' = NoModule
    /\ \E c \in BOOLEAN :
          /\ found' = c
          /\ IF c THEN lpc' = "createServer" /\ result' = NoResult
                  ELSE lpc' = "returned" /\ result' = [kind |-> "NotFoundError"]
    /\ UNCHANGED servers

\* `await createServer({...})`, outside the try block
CreateServer ==
    /\ lpc = "createServer"
    /\ \/ /\ servers' = Append(servers, [state |-> "open", closes |-> 0])
          /\ created' = TRUE
          /\ lpc' = "ssrLoadModule"
       \/ /\ lpc' = "threw"
          /\ UNCHANGED <<servers, created>>
    /\ UNCHANGED <<found, module, result, nCalls>>

\* `unparsedConfig = await tempConfigServer.ssrLoadModule(...)`
SsrLoadModule ==
    /\ lpc = "ssrLoadModule"
    /\ \/ \E m \in Modules : module' = m /\ lpc' = "tryClose"
       \/ lpc' = "catchClose" /\ UNCHANGED module
    /\ UNCHANGED <<servers, created, found, result, nCalls>>

\* The close() of the try block; a rejection enters the catch block.
TryClose ==
    /\ lpc = "tryClose"
    /\ \E o \in CloseOutcomes :
          /\ servers' = [servers EXCEPT ![Len(servers)] = TryTeardown(@, o)]
          /\ lpc' = IF o = "ok" THEN "parse" ELSE "catchClose"
    /\ UNCHANGED <<created, found, module, result, nCalls>>

\* The catch block: close(), then `return new NotFoundError()`; a rejection
\* of this close() leaves loadContentConfig by an exception.
CatchClose ==
    /\ lpc = "catchClose"
    /\ \E o \in CloseOutcomes :
          /\ servers' = [servers EXCEPT ![Len(servers)] = CatchTeardown(@, o)]
          /\ IF o = "ok"
             THEN lpc' = "returned" /\ result' = [kind |-> "NotFoundError"]
             ELSE lpc' = "threw" /\ UNCHANGED result
    /\ UNCHANGED <<created, found, module, nCalls>>

\* contentConfigParser.safeParse(unparsedConfig) and the two returns.
Parse ==
    /\ lpc = "parse"
    /\ LET config == SafeParseConfig(module)
       IN  result' = IF config.success
                     THEN [kind |-> "ContentConfig", data |-> config.data]
                     ELSE [kind |-> "ZodParseError", message |-> config.message]
    /\ lpc' = "returned"
    /\ UNCHANGED <<servers, created, found, module, nCalls>>

(***************************************************************************)
(* getFrontmatterErrorLine                                                 *)
(***************************************************************************)
NL       == "\n"
Alphabet == {NL, "a", "b", ":"}
KeyChars == {"a", "b"}

SeqsUpTo(S, n) == UNION {[1..k -> S] : k \in 0..n}

\* The field names tried: one or two characters.
KeyNames == SeqsUpTo(KeyChars, 2) \ {<<>>}

\* The raw frontmatter texts tried: the opening delimiter line, then up to
\* MaxLen characters.
Raws == {<<"-", NL>> \o b : b \in SeqsUpTo(Alphabet, MaxLen)}

\* String.prototype.indexOf: the 0-based position of the first occurrence
\* of pat in str, or -1.
IndexOf(str, pat) ==
    LET At(i) == /\ i + Len(pat) <= Len(str)
                 /\ \A k \in 1..Len(pat) : str[i + k] = pat[k]
        C == {i \in 0..Len(str) : At(i)}
    IN  IF C = {} THEN -1 ELSE CHOOSE i \in C : \A j \in C : i <= j

\* String.prototype.substring(0, end)
Substring0(str, end) == SubSeq(str, 1, IF end > Len(str) THEN Len(str) ELSE end)

\* str.split('\n').length: one more than the number of newlines.
SplitLength(str) == Cardinality({i \in 1..Len(str) : str[i] = NL}) + 1

getFrontmatterErrorLine(rawFrontmatter, frontmatterKey) ==
    LET indexOfFrontmatterKey == IndexOf(rawFrontmatter, <<NL>> \o frontmatterKey)
    IN  IF indexOfFrontmatterKey = -1 THEN 0
        ELSE SplitLength(Substring0(rawFrontmatter, indexOfFrontmatterKey + 1))

InitLine ==
    /\ raw \in Raws
    /\ key \in KeyNames
    /\ line = 0
    /\ lineDone = FALSE

\* One call of getFrontmatterErrorLine(raw, key).
ErrorLine ==
    /\ ~lineDone
    /\ line' = getFrontmatterErrorLine(raw, key)
    /\ lineDone' = TRUE
    /\ UNCHANGED <<raw, key>>

(***************************************************************************)
(* getEntryData                                                            *)
(***************************************************************************)
Absent     == "undefined"
FieldNames == {<<"a">>, <<"b">>}
FieldOrder == <<(<<"a">>), (<<"b">>)>>
Values     == {"s", "n"}
TypeOf(v)  == IF v = "s" THEN "string" ELSE IF v = "n" THEN "number" ELSE "undefined"
NoEntry    == [data |-> None]
NoRet      == [kind |-> None]

\* entry.data: each field holds a string, a number, or is missing.
Datas   == [FieldNames -> Values \cup {Absent}]
\* A schema's shape: the type each field must have; "none" when the schema
\* does not name the field.
Shapes  == [FieldNames -> {"string", "number", "none"}]
Schemas == {[defined |-> FALSE, shape |-> [f \in FieldNames |-> "none"]]}
           \cup {[defined |-> TRUE, shape |-> sh] : sh \in Shapes}
EntryRaws == {<<"-", NL, "a", ":", NL, "b", ":">>, <<"-", NL, "b", ":">>}
Entries == [data : Datas, rawData : EntryRaws]

\* A faulty variant of SchemaDeclared: every entry is validated.
SchemaDeclaredAlways(sch) == TRUE

\* `if (collectionConfig.schema)`
SchemaDeclared(sch) == sch.defined

\* The fields of the schema that data fails, in schema order.
Failing(shape, data) ==
    SelectSeq(FieldOrder,
              LAMBDA f : shape[f] # "none" /\ TypeOf(data[f]) # shape[f])

\* errorMap, for the invalid_type issue of field f.
ErrorMessage(shape, data, f) ==
    IF data[f] = Absent THEN <<f, "is required.">>
    ELSE <<f, "should be", shape[f], "not", TypeOf(data[f])>>

\* z.object(schema).safeParseAsync(entry.data): the fields the schema names
\* are checked; on success the parsed data keeps only those fields.
SafeParseEntry(shape, data) ==
    IF Failing(shape, data) = <<>>
    THEN [success |-> TRUE,
          data |-> [f \in FieldNames |-> IF shape[f] # "none" THEN data[f] ELSE Absent]]
    ELSE [success |-> FALSE, path |-> Head(Failing(shape, data)),
          message |-> ErrorMessage(shape, data, Head(Failing(shape, data)))]

\* What getEntryData returns or throws (out), and the entry as it leaves it:
\* `let data = entry.data` and `data = parsed.data` rebind a local only.
getEntryData(e, sch) ==
    LET out ==
          IF SchemaDeclared(sch)
          THEN LET parsed == SafeParseEntry(sch.shape, e.data)
               IN  IF parsed.success
                   THEN [kind |-> "return", data |-> parsed.data]
                   ELSE [kind |-> "throw", message |-> parsed.message,
                         line |-> getFrontmatterErrorLine(e.rawData, parsed.path),
                         column |-> 0]
          ELSE [kind |-> "return", data |-> e.data]
    IN  [out |-> out, entry |-> e]

InitEntry ==
    /\ entry \in Entries
    /\ schema \in Schemas
    /\ entryOut = NoEntry
    /\ ret = NoRet

\* One call of getEntryData(entry, collectionConfig); the entry is only read.
GetEntryData ==
    /\ ret.kind = None
    /\ ret' = getEntryData(entry, schema).out
    /\ entryOut' = getEntryData(entry, schema).entry
    /\ UNCHANGED <<entry, schema>>

(***************************************************************************)
(* The specifications                                                      *)
(***************************************************************************)
IdleObs   == InitObsAt("loading")
IdleLoad  == InitLoad
IdleLine  == raw = <<"-", NL>> /\ key = <<"a">> /\ line = 0 /\ lineDone = FALSE
IdleEntry == /\ entry = [data |-> [f \in FieldNames |-> Absent],
                         rawData |-> <<"-", NL, "b", ":">>]
             /\ schema = [defined |-> FALSE, shape |-> [f \in FieldNames |-> "none"]]
             /\ entryOut = NoEntry
             /\ ret = NoRet

\* What each component's steps leave alone.
ObsOnly   == UNCHANGED <<loadVars, lineVars, entryVars>>
LoadOnly  == UNCHANGED <<obsVars, lineVars, entryVars>>
LineOnly  == UNCHANGED <<obsVars, loadVars, entryVars>>
EntryOnly == UNCHANGED <<obsVars, loadVars, lineVars>>

NextObs ==
    \/ (\E c \in Statuses : Set(c)) /\ ObsOnly
    \/ ForEachStep /\ ObsOnly
    \/ CallbackReturn /\ ObsOnly
    \/ ForEachDone /\ ObsOnly
    \/ (\E f \in Subs : Subscribe(f)) /\ ObsOnly
    \/ (\E f \in Subs : Unsubscribe(f)) /\ ObsOnly

ObsInit == InitObs /\ IdleLoad /\ IdleLine /\ IdleEntry

SpecObs == ObsInit /\ [][NextObs]_vars

NextLoad ==
    \/ Call /\ LoadOnly
    \/ CreateServer /\ LoadOnly
    \/ SsrLoadModule /\ LoadOnly
    \/ TryClose /\ LoadOnly
    \/ CatchClose /\ LoadOnly
    \/ Parse /\ LoadOnly

LoadInit == IdleObs /\ InitLoad /\ IdleLine /\ IdleEntry

SpecLoad == LoadInit /\ [][NextLoad]_vars

NextLine == ErrorLine /\ LineOnly

LineInit == IdleObs /\ IdleLoad /\ InitLine /\ IdleEntry

SpecLine == LineInit /\ [][NextLine]_vars

NextGetEntryData == GetEntryData /\ EntryOnly

EntryInit == IdleObs /\ IdleLoad /\ IdleLine /\ InitEntry

SpecEntry == EntryInit /\ [][NextGetEntryData]_vars

(***************************************************************************)
(* contentObservable: properties                                           *)
(***************************************************************************)
Terminal == {"loaded", "error"}
Returned == done.arg # None
Frames   == {stack[i] : i \in 1..Len(stack)}
NoRepeat(q) == \A i, j \in 1..Len(q) : i # j => q[i] # q[j]

C2_NoNotifyAfterUnsubscribe ==
    /\ \A fr \in Frames : fr.running # None => ~fr.stale
    /\ \A f \in Subs : unsubbed[f] => ~Has(Live(setData), f)

\* A subscriber has called its unsubscribe callback during its own
\* notification, in a pass that still has another subscriber to reach.
C2_Witness ==
    /\ Len(stack) = 1
    /\ Top.running # None
    /\ unsubbed[Top.running]
    /\ NextEntry(setData, Top.idx) # 0

\* C6, as claimed: once the status is loaded or error it never becomes
\* loading again.
C6_TerminalStaysTerminal ==
    [][(ctx \in Terminal) => ~(ctx' = "loading")]_vars

\* C6, amended: the state is always exactly one of loading, loaded, error,
\* and it is the initial context or the argument of the most recent set()
\* call, whatever that was.
C6_StateIsLastSet == ctx \in Statuses /\ ctx = lastArg

\* set() has just put a loaded or failed observable back to loading.
C6_Witness ==
    /\ stack # <<>>
    /\ Top.before \in Terminal
    /\ Top.arg.val = "loading"
    /\ Get = "loading"

C10_InvokedWithCurrentCtx ==
    \A fr \in Frames :
        fr.running # None => fr.given = fr.atCall /\ fr.given.ver >= fr.prev

\* The outer pass, after a nested set() has returned, invokes a subscriber
\* with the context of the nested call.
C10_Witness ==
    /\ Len(stack) = 1
    /\ Top.running # None
    /\ Top.given.ver > Top.arg.ver
    /\ Len(Top.notified) >= 2

(***************************************************************************)
(* loadContentConfig: properties                                           *)
(***************************************************************************)
Finished == lpc \in {"returned", "threw"}

C4_NeverThrows == lpc # "threw"

\* C5: the value returned is NotFoundError when no config file is found (no
\* server is then created) or when executing the module threw, ZodParseError
\* with the validator's message when the module's shape is invalid, and the
\* validated config otherwise; never NotFoundError for a module that loaded.
C5_ResultDetermined ==
    lpc = "returned" =>
        /\ ~found => result.kind = "NotFoundError" /\ ~created
        /\ (found /\ module.shape = None) => result.kind = "NotFoundError"
        /\ module.shape \in {"notRecord", "missing"} =>
               result = [kind |-> "ZodParseError",
                         message |-> SafeParseConfig(module).message]
        /\ module.shape \in {"c1", "c2"} =>
               result = [kind |-> "ContentConfig",
                         data |-> [collections |-> module.shape]]

(***************************************************************************)
(* getFrontmatterErrorLine: properties                                     *)
(***************************************************************************)
\* The positions where the lines of str start (1-based), in order.
LineStarts(str) == {1} \cup {i + 1 : i \in {j \in 1..Len(str) : str[j] = NL}}

\* The number of the line that starts at position p.
LineNumber(str, p) == Cardinality({q \in LineStarts(str) : q <= p})

\* The token that starts at position p: the characters up to the next ":"
\* or the end of the line.
TokenAt(str, p) ==
    LET Stops == {i \in p..Len(str) : str[i] \in {NL, ":"}}
        end == IF Stops = {} THEN Len(str) + 1
               ELSE CHOOSE i \in Stops : \A j \in Stops : i <= j
    IN  SubSeq(str, p, end - 1)

\* The line on which the field named k begins, or 0 when no line starts
\* with the token k.
FieldLine(str, k) ==
    LET C == {p \in LineStarts(str) : TokenAt(str, p) = k}
    IN  IF C = {} THEN 0
        ELSE LineNumber(str, CHOOSE p \in C : \A q \in C : p <= q)

\* C7: getFrontmatterErrorLine returns the number of the line on which the
\* field named key begins, and 0 exactly when key starts no line.
C7_ReturnsLineOfField == lineDone => line = FieldLine(raw, key)

(***************************************************************************)
(* getEntryData: properties                                                *)
(***************************************************************************)
\* C8: with no schema, getEntryData returns entry.data as it is and leaves
\* the entry as it was.
C8_NoSchemaIsIdentity ==
    (ret.kind # None /\ ~schema.defined) =>
        /\ ret = [kind |-> "return", data |-> entry.data]
        /\ entryOut = entry

\* getEntryData has returned for an entry that has data and no schema.
C8_Witness ==
    /\ ret.kind = "return"
    /\ ~schema.defined
    /\ \E f \in FieldNames : entry.data[f] # Absent

====
